---------------------------- MODULE Spec2Model ----------------------------
(***************************************************************************)
(* A model of tensorflow/tools/api/generator/create_python_api.py: the     *)
(* import builder (_ModuleImportsBuilder.add_import), the module scan and  *)
(* the namespace closure of get_api_imports, and the file materializer     *)
(* create_api_files.                                                       *)
(*                                                                         *)
(* Representation.  A dotted name (a module name, a namespace, an export   *)
(* path) is kept as the sequence of its segments, <<"a", "b">> for "a.b"   *)
(* and <<>> for the root namespace "", and rendered with Dotted where the  *)
(* code uses the string.  A file path is the sequence of its components,   *)
(* rendered with Slashed.  Import statements, full API names, file         *)
(* contents and error messages are real strings, built as the code builds  *)
(* them.  os.sep is "/" (POSIX).                                           *)
(***************************************************************************)
EXTENDS Naturals, Sequences, FiniteSets, TLC

VARIABLES
    sys_modules,              \* sys.modules.values(), in iteration order
    output_files,             \* the argument of create_api_files
    fs0,                      \* the files on disk when the run starts
    dirs0,                    \* the directories on disk when the run starts
    pc,                       \* where the run is
    module_imports,           \* _ModuleImportsBuilder.module_imports
    seen_api_names,           \* _ModuleImportsBuilder._seen_api_names
    visited_symbols,          \* get_api_imports: visited_symbols
    mi,                       \* index of the module being scanned
    ki,                       \* index of the next member of dir(module)
    pending,                  \* add_import calls the current loop body still makes
    imported_modules,         \* closure pass: namespaces not yet walked
    module_name_to_file_path, \* create_api_files: namespace -> declared path
    pi,                       \* index of the next output file to parse
    create_todo,              \* namespaces whose file is not yet touched
    write_todo,               \* namespaces of the import map not yet written
    missing_output_files,     \* create_api_files: missing_output_files
    fs,                       \* file path -> content
    dirs,                     \* existing directories
    err,                      \* message of the exception raised, "" for none
    log,                      \* history: every add_import call made, with outcome
    last                      \* history: the last direct add_import call

vars == <<sys_modules, output_files, fs0, dirs0, pc, module_imports,
          seen_api_names, visited_symbols, mi, ki, pending, imported_modules,
          module_name_to_file_path, pi, create_todo, write_todo,
          missing_output_files, fs, dirs, err, log, last>>

-----------------------------------------------------------------------------
(* Bounds of the model. *)

MaxCalls == 3

MaxModules == 2

MaxOutputs == 3

-----------------------------------------------------------------------------
(* Program constants. *)

API_CONSTANTS_ATTR == "_tf_api_constants"

OUTPUT_MODULE == <<"tensorflow", "tools", "api", "generator", "api">>

API_DIR_NAME == "api"

GENERATED_FILE_HEADER ==
    "\"\"\"Imports for Python API.\n\nThis file is MACHINE GENERATED! Do not edit.\nGenerated by: tensorflow/tools/api/generator/create_python_api.py script.\n\"\"\"\n"

-----------------------------------------------------------------------------
(* Strings. *)

RECURSIVE Join(_, _)
\* sep.join(parts)
Join(parts, sep) ==
    IF parts = <<>> THEN ""
    ELSE IF Len(parts) = 1 THEN parts[1]
    ELSE parts[1] \o sep \o Join(Tail(parts), sep)

\* '.'.join(segments): the dotted name of a segment sequence
Dotted(segs) == Join(segs, ".")

\* '/'.join(components): the path string of a component sequence
Slashed(comps) == Join(comps, "/")

\* names[:-1]
AllButLast(s) == SubSeq(s, 1, Len(s) - 1)

\* names[-1]
Last(s) == s[Len(s)]

\* x in list
InList(x, list) == \E i \in 1..Len(list) : list[i] = x

-----------------------------------------------------------------------------
(* format_import and _ModuleImportsBuilder. *)

format_import(source_module_name, source_name, dest_name) ==
    IF source_module_name # ""
    THEN IF source_name = dest_name
         THEN "from " \o source_module_name \o " import " \o source_name
         ELSE "from " \o source_module_name \o " import " \o source_name
              \o " as " \o dest_name
    ELSE IF source_name = dest_name
         THEN "import " \o source_name
         ELSE "import " \o source_name \o " as " \o dest_name

\* full_api_name of add_import
FullApiName(dest_module_name, dest_name) ==
    IF dest_module_name # <<>>
    THEN Dotted(dest_module_name) \o "." \o dest_name
    ELSE dest_name

\* self.module_imports[key] on a defaultdict(list): the lookup creates the key
Touch(imports, key) ==
    IF key \in DOMAIN imports THEN imports ELSE imports @@ (key :> <<>>)

\* add_import that never looks at _seen_api_names: a new statement is
\* always appended
AddImportUnchecked(imports, seen, dest_module_name, source_module_name, source_name, dest_name) ==
    LET import_str == format_import(source_module_name, source_name, dest_name)
        touched == Touch(imports, dest_module_name)
        full_api_name == FullApiName(dest_module_name, dest_name)
    IN  IF InList(import_str, touched[dest_module_name])
        THEN [imports |-> touched, seen |-> seen, raised |-> FALSE,
              outcome |-> "duplicate", msg |-> ""]
        ELSE [imports |-> [touched EXCEPT ![dest_module_name] =
                                              Append(@, import_str)],
              seen |-> seen \cup {full_api_name}, raised |-> FALSE,
              outcome |-> "added", msg |-> ""]

\* add_import without the early return for a statement already present
AddImportNoDedup(imports, seen, dest_module_name, source_module_name, source_name, dest_name) ==
    LET import_str == format_import(source_module_name, source_name, dest_name)
        touched == Touch(imports, dest_module_name)
        full_api_name == FullApiName(dest_module_name, dest_name)
    IN  IF full_api_name \in seen
        THEN [imports |-> touched, seen |-> seen, raised |-> TRUE,
              outcome |-> "raised",
              msg |-> "Trying to export multiple symbols with same name: "
                      \o full_api_name \o "."]
        ELSE [imports |-> [touched EXCEPT ![dest_module_name] =
                                              Append(@, import_str)],
              seen |-> seen \cup {full_api_name}, raised |-> FALSE,
              outcome |-> "added", msg |-> ""]

\* _ModuleImportsBuilder.add_import: the builder after the call, and whether
\* the call raised SymbolExposedTwiceError (with its message)
add_import(imports, seen, dest_module_name, source_module_name, source_name, dest_name) ==
    LET import_str == format_import(source_module_name, source_name, dest_name)
        touched == Touch(imports, dest_module_name)
        full_api_name == FullApiName(dest_module_name, dest_name)
    IN  IF InList(import_str, touched[dest_module_name])
        THEN [imports |-> touched, seen |-> seen, raised |-> FALSE,
              outcome |-> "duplicate", msg |-> ""]
        ELSE IF full_api_name \in seen
        THEN [imports |-> touched, seen |-> seen, raised |-> TRUE,
              outcome |-> "raised",
              msg |-> "Trying to export multiple symbols with same name: "
                      \o full_api_name \o "."]
        ELSE [imports |-> [touched EXCEPT ![dest_module_name] =
                                              Append(@, import_str)],
              seen |-> seen \cup {full_api_name}, raised |-> FALSE,
              outcome |-> "added", msg |-> ""]

-----------------------------------------------------------------------------
(* Direct use of the builder: any sequence of add_import calls on one       *)
(* _ModuleImportsBuilder.  A caller may catch SymbolExposedTwiceError and   *)
(* go on calling.                                                           *)

NoFile == <<>>

NoCall == [made |-> FALSE]

\* the origin of a call made on the builder directly
DirectCall == [kind |-> "direct", mod |-> 0, mem |-> 0, obj |-> ""]

DestModules == {<<>>, <<"a">>}

SourceModules == {"", "mod_a", "mod_b"}

SourceNames == {"Foo", "Bar"}

DestNames == {"X", "Foo"}

InitBuilder ==
    /\ sys_modules = <<>>
    /\ output_files = <<>>
    /\ fs0 = NoFile
    /\ dirs0 = {}
    /\ pc = "builder"
    /\ module_imports = <<>>
    /\ seen_api_names = {}
    /\ visited_symbols = {}
    /\ mi = 1
    /\ ki = 1
    /\ pending = <<>>
    /\ imported_modules = {}
    /\ module_name_to_file_path = <<>>
    /\ pi = 1
    /\ create_todo = {}
    /\ write_todo = {}
    /\ missing_output_files = <<>>
    /\ fs = NoFile
    /\ dirs = {}
    /\ err = ""
    /\ log = <<>>
    /\ last = NoCall

\* builder.add_import(dest, src, name, alias), called directly
CallAddImport(dest, src, name, alias) ==
    LET r == add_import(module_imports, seen_api_names, dest, src, name, alias)
    IN  /\ pc = "builder"
        /\ Len(log) < MaxCalls
        /\ module_imports' = r.imports
        /\ seen_api_names' = r.seen
        /\ err' = r.msg
        /\ last' = [made |-> TRUE, dest |-> dest, src |-> src, name |-> name,
                    alias |-> alias, outcome |-> r.outcome,
                    imports_before |-> module_imports,
                    seen_before |-> seen_api_names]
        /\ log' = Append(log, [dest |-> dest, src |-> src, name |-> name,
                                alias |-> alias, origin |-> DirectCall,
                                outcome |-> r.outcome])
        /\ UNCHANGED <<sys_modules, output_files, fs0, dirs0, pc,
                       visited_symbols, mi, ki, pending, imported_modules,
                       module_name_to_file_path, pi, create_todo, write_todo,
                       missing_output_files, fs, dirs>>

NextBuilder ==
    \E dest \in DestModules, src \in SourceModules,
       name \in SourceNames, alias \in DestNames :
        CallAddImport(dest, src, name, alias)

SpecBuilder == InitBuilder /\ [][NextBuilder]_vars

-----------------------------------------------------------------------------
(* The loaded modules.  An object is named by its identity (id(obj)).  A    *)
(* module is its __name__ and its members in dir() order (sorted by name),  *)
(* each member the identity of the attribute it is bound to.                *)

\* tf_decorator.unwrap: the object under the decorators
Unwrap(obj) == IF obj = "W1" THEN "U1" ELSE obj

\* objects with _tf_api_names in their __dict__
HasApiNames(obj) == obj \in {"U0", "U1", "U2", "U3", "U4"}

\* obj._tf_api_names, each export path as its segments
ApiNames(obj) ==
    CASE obj = "U0" -> << <<"X">> >>
      [] obj = "U1" -> << <<"a", "Foo">>, <<"b", "Foo">> >>
      [] obj = "U2" -> << <<"a", "b">> >>
      [] obj = "U3" -> << <<"a", "b", "c">> >>
      [] obj = "U4" -> << <<"a", "Foo">> >>
      [] OTHER -> <<>>

\* the (exports, value) pairs of a _tf_api_constants list
ConstPairs(obj) ==
    CASE obj = "L1" -> << [exports |-> << <<"a", "BAR">>, <<"BAR">> >>,
                           value |-> "BAR"],
                          [exports |-> << <<"a", "BAR">> >>, value |-> "BAR"] >>
      [] obj = "L2" -> << [exports |-> << <<"a", "Foo">> >>, value |-> "Foo"] >>
      [] OTHER -> <<>>

\* the objects of the model: exported symbols U0..U4, a decorator W1 around
\* U1, a plain object P, and two _tf_api_constants lists L1, L2
Objects == {"U0", "U1", "U2", "U3", "U4", "W1", "P", "L1", "L2"}

Member(n, o) == [name |-> n, obj |-> o]

Module(n, ms) == [none |-> FALSE, name |-> n, members |-> ms]

\* a None entry of sys.modules
ModNone == [none |-> TRUE, name |-> <<>>, members |-> <<>>]

ModRoot == Module(<<"tensorflow", "m0">>, << Member("X", "U0") >>)

ModAlias == Module(<<"tensorflow", "m1">>,
                   << Member("Alias", "U1"), Member("Foo", "W1") >>)

ModBoth == Module(<<"tensorflow", "m2">>,
                  << Member("Foo", "U1"), Member(API_CONSTANTS_ATTR, "L2") >>)

ModClash == Module(<<"tensorflow", "m3">>,
                   << Member("b", "U2"), Member("c", "U3") >>)

ModDeep == Module(<<"tensorflow", "m4">>, << Member("c", "U3") >>)

ModGenerated == Module(OUTPUT_MODULE \o <<"a">>, << Member("b", "U2") >>)

ModContrib == Module(<<"tensorflow", "contrib", "x">>,
                     << Member("Foo", "U1") >>)

ModConsts == Module(<<"tensorflow", "consts">>,
                    << Member("Other", "U4"), Member("P", "P"),
                       Member(API_CONSTANTS_ATTR, "L1") >>)

ModForeign == Module(<<"numpy">>, << Member("Other", "U4") >>)

ModulePool == {ModNone, ModRoot, ModAlias, ModBoth, ModClash, ModDeep,
               ModGenerated, ModContrib, ModConsts, ModForeign}

\* 'tensorflow.' in name: a segment that ends with "tensorflow" and is
\* followed by a dot (of the model's segments only "tensorflow" ends so)
InTensorflow(name) ==
    \E i \in 1..(Len(name) - 1) : name[i] = "tensorflow"

\* '.contrib.' in name or name.endswith('.contrib')
InContrib(name) ==
    \/ \E i \in 2..(Len(name) - 1) : name[i] = "contrib"
    \/ Len(name) >= 2 /\ Last(name) = "contrib"

\* the two `continue`s at the head of the module loop
Skipped(module) ==
    \/ module.none
    \/ ~InTensorflow(module.name)
    \/ InContrib(module.name)

-----------------------------------------------------------------------------
(* get_api_imports: the scan. *)

Call(dest, src, name, alias, origin) ==
    [dest |-> dest, src |-> src, name |-> name, alias |-> alias,
     origin |-> origin]

\* for export in exports: add_import('.'.join(names[:-1]), module.__name__,
\*                                   source_name, names[-1])
ExportCalls(exports, module_name, source_name, origin) ==
    [i \in 1..Len(exports) |->
        Call(AllButLast(exports[i]), Dotted(module_name), source_name,
             Last(exports[i]), origin)]

RECURSIVE Flatten(_)
Flatten(seqs) ==
    IF seqs = <<>> THEN <<>> ELSE Head(seqs) \o Flatten(Tail(seqs))

\* the body of the member loop without the identity set: every member that
\* reaches an exported symbol emits its exports
MemberCallsNoVisited(m, k, visited) ==
    LET module == sys_modules[m]
        member == module.members[k]
        attr == Unwrap(member.obj)
    IN  IF member.name = API_CONSTANTS_ATTR
        THEN LET pairs == ConstPairs(member.obj)
             IN  [calls |-> Flatten([j \in 1..Len(pairs) |->
                      ExportCalls(pairs[j].exports, module.name, pairs[j].value,
                                  [kind |-> "const", mod |-> m, mem |-> k,
                                   obj |-> pairs[j].value])]),
                  visited |-> visited]
        ELSE IF HasApiNames(attr)
        THEN [calls |-> ExportCalls(ApiNames(attr), module.name, member.name,
                                    [kind |-> "symbol", mod |-> m, mem |-> k,
                                     obj |-> attr]),
              visited |-> visited \cup {attr}]
        ELSE [calls |-> <<>>, visited |-> visited]

\* the body of `for module_contents_name in dir(module)` for member k of
\* module m: the add_import calls it makes, in order, and visited_symbols after
MemberCalls(m, k, visited) ==
    LET module == sys_modules[m]
        member == module.members[k]
        attr == Unwrap(member.obj)
    IN  IF member.obj \in visited
        THEN [calls |-> <<>>, visited |-> visited]
        ELSE IF member.name = API_CONSTANTS_ATTR
        THEN LET pairs == ConstPairs(member.obj)
             IN  [calls |-> Flatten([j \in 1..Len(pairs) |->
                      ExportCalls(pairs[j].exports, module.name, pairs[j].value,
                                  [kind |-> "const", mod |-> m, mem |-> k,
                                   obj |-> pairs[j].value])]),
                  visited |-> visited]
        ELSE IF HasApiNames(attr)
        THEN IF attr \in visited
             THEN [calls |-> <<>>, visited |-> visited]
             ELSE [calls |-> ExportCalls(ApiNames(attr), module.name,
                                         member.name,
                                         [kind |-> "symbol", mod |-> m,
                                          mem |-> k, obj |-> attr]),
                   visited |-> visited \cup {attr}]
        ELSE [calls |-> <<>>, visited |-> visited]

\* the variables of create_api_files outside get_api_imports
fileVars == <<output_files, fs0, dirs0, module_name_to_file_path, pi,
              create_todo, missing_output_files, fs, dirs>>

\* `continue`: the module is None, not a tensorflow module, or a contrib one
SkipModule ==
    /\ pc = "scan"
    /\ pending = <<>>
    /\ mi <= Len(sys_modules)
    /\ Skipped(sys_modules[mi])
    /\ mi' = mi + 1
    /\ ki' = 1
    /\ UNCHANGED <<sys_modules, pc, module_imports, seen_api_names,
                   visited_symbols, pending, imported_modules, write_todo,
                   err, log, last>>
    /\ UNCHANGED fileVars

\* one iteration of the member loop, up to its add_import calls
ScanMember ==
    /\ pc = "scan"
    /\ pending = <<>>
    /\ mi <= Len(sys_modules)
    /\ ~Skipped(sys_modules[mi])
    /\ ki <= Len(sys_modules[mi].members)
    /\ LET r == MemberCalls(mi, ki, visited_symbols)
       IN  /\ pending' = r.calls
           /\ visited_symbols' = r.visited
    /\ ki' = ki + 1
    /\ UNCHANGED <<sys_modules, pc, module_imports, seen_api_names, mi,
                   imported_modules, write_todo, err, log, last>>
    /\ UNCHANGED fileVars

\* dir(module) is exhausted: the next module
EndModule ==
    /\ pc = "scan"
    /\ pending = <<>>
    /\ mi <= Len(sys_modules)
    /\ ~Skipped(sys_modules[mi])
    /\ ki > Len(sys_modules[mi].members)
    /\ mi' = mi + 1
    /\ ki' = 1
    /\ UNCHANGED <<sys_modules, pc, module_imports, seen_api_names,
                   visited_symbols, pending, imported_modules, write_todo,
                   err, log, last>>
    /\ UNCHANGED fileVars

\* the next module_imports_builder.add_import call of the scan or of the
\* closure pass; SymbolExposedTwiceError leaves get_api_imports (and
\* create_api_files) uncaught
AddImportStep ==
    /\ pc \in {"scan", "closure"}
    /\ pending # <<>>
    /\ LET c == Head(pending)
           r == add_import(module_imports, seen_api_names, c.dest, c.src,
                           c.name, c.alias)
       IN  /\ module_imports' = r.imports
           /\ seen_api_names' = r.seen
           /\ log' = Append(log, [dest |-> c.dest, src |-> c.src,
                                  name |-> c.name, alias |-> c.alias,
                                  origin |-> c.origin, outcome |-> r.outcome])
           /\ err' = r.msg
           /\ pc' = IF r.raised THEN "SymbolExposedTwiceError" ELSE pc
           /\ pending' = IF r.raised THEN <<>> ELSE Tail(pending)
    /\ UNCHANGED <<sys_modules, visited_symbols, mi, ki, imported_modules,
                   write_todo, last>>
    /\ UNCHANGED fileVars

-----------------------------------------------------------------------------
(* get_api_imports: the closure pass. *)

\* the parent walk binding only the last segment in its immediate parent
ClosureCallsLeafOnly(module) ==
    IF module = <<>> THEN <<>>
    ELSE << Call(AllButLast(module),
                 Dotted(OUTPUT_MODULE \o AllButLast(module)),
                 Last(module), Last(module),
                 [kind |-> "closure", mod |-> 0, mem |-> 0,
                  obj |-> Dotted(module)]) >>

RECURSIVE ClosureWalk(_, _, _)
\* the iterations submodule_index = i .. len(module_split) - 1 (i counted
\* from 1 here), parent_module being what the iterations before left
ClosureWalk(module_split, i, parent_before) ==
    IF i > Len(module_split) THEN <<>>
    ELSE LET parent_module ==
                 IF i > 1
                 THEN (IF parent_before # <<>>
                       THEN parent_before \o <<module_split[i - 1]>>
                       ELSE <<module_split[i - 1]>>)
                 ELSE parent_before
             import_from ==
                 IF i > 1
                 THEN Dotted(OUTPUT_MODULE) \o "." \o Dotted(parent_module)
                 ELSE Dotted(OUTPUT_MODULE)
         IN  << Call(parent_module, import_from, module_split[i],
                     module_split[i],
                     [kind |-> "closure", mod |-> 0, mem |-> 0,
                      obj |-> Dotted(SubSeq(module_split, 1, i))]) >>
             \o ClosureWalk(module_split, i + 1, parent_module)

\* the body of `for module in imported_modules`: the add_import calls it makes
ClosureCalls(module) ==
    IF module = <<>> THEN <<>> ELSE ClosureWalk(module, 1, <<>>)

\* the scan is over: imported_modules = set(module_imports.keys())
StartClosure ==
    /\ pc = "scan"
    /\ pending = <<>>
    /\ mi > Len(sys_modules)
    /\ imported_modules' = DOMAIN module_imports
    /\ pc' = "closure"
    /\ UNCHANGED <<sys_modules, module_imports, seen_api_names,
                   visited_symbols, mi, ki, pending, write_todo, err, log,
                   last>>
    /\ UNCHANGED fileVars

\* one iteration of `for module in imported_modules` (a set: any order), up
\* to its add_import calls
ClosureModule ==
    /\ pc = "closure"
    /\ pending = <<>>
    /\ \E module \in imported_modules :
        /\ pending' = ClosureCalls(module)
        /\ imported_modules' = imported_modules \ {module}
    /\ UNCHANGED <<sys_modules, pc, module_imports, seen_api_names,
                   visited_symbols, mi, ki, write_todo, err, log, last>>
    /\ UNCHANGED fileVars

\* return module_imports_builder.module_imports
ReturnImports ==
    /\ pc = "closure"
    /\ pending = <<>>
    /\ imported_modules = {}
    /\ pc' = "write"
    /\ write_todo' = DOMAIN module_imports
    /\ UNCHANGED <<sys_modules, module_imports, seen_api_names,
                   visited_symbols, mi, ki, pending, imported_modules, err,
                   log, last>>
    /\ UNCHANGED fileVars

GetApiImports ==
    \/ SkipModule
    \/ ScanMember
    \/ EndModule
    \/ AddImportStep
    \/ StartClosure
    \/ ClosureModule
    \/ ReturnImports

\* sys.modules.values(): up to MaxModules entries of the pool, in any order
ModuleLists == UNION {[1..n -> ModulePool] : n \in 0..MaxModules}

InitImports ==
    /\ sys_modules \in ModuleLists
    /\ output_files = <<>>
    /\ fs0 = NoFile
    /\ dirs0 = {}
    /\ pc = "scan"
    /\ module_imports = <<>>
    /\ seen_api_names = {}
    /\ visited_symbols = {}
    /\ mi = 1
    /\ ki = 1
    /\ pending = <<>>
    /\ imported_modules = {}
    /\ module_name_to_file_path = <<>>
    /\ pi = 1
    /\ create_todo = {}
    /\ write_todo = {}
    /\ missing_output_files = <<>>
    /\ fs = NoFile
    /\ dirs = {}
    /\ err = ""
    /\ log = <<>>
    /\ last = NoCall

NextImports == GetApiImports

SpecImports == InitImports /\ [][NextImports]_vars

-----------------------------------------------------------------------------
(* create_api_files. *)

\* a test of the marker that every path passes
HasApiDirAlways(path) == TRUE

\* _API_DIR in output_file: the string contains "/api/", that is a component
\* "api" with a separator on both sides
HasApiDir(path) ==
    \E i \in 2..(Len(path) - 1) : path[i] = API_DIR_NAME

\* the component at which normalized_output_file.rfind(_API_DIR) finds the
\* marker; 0 when there is none (create_api_files has raised before)
LastApiDir(path) ==
    LET found == {i \in 2..(Len(path) - 1) : path[i] = API_DIR_NAME}
    IN  IF found = {} THEN 0
        ELSE CHOOSE i \in found : \A j \in found : j <= i

\* os.path.dirname
dirname(path) == AllButLast(path)

RECURSIVE strip_dots(_)
\* the segments of module_dir.replace('/', '.').strip('.'): the dots that
\* "." components put at either end are stripped
strip_dots(segs) ==
    IF segs = <<>> THEN <<>>
    ELSE IF Head(segs) = "." THEN strip_dots(Tail(segs))
    ELSE IF Last(segs) = "." THEN strip_dots(AllButLast(segs))
    ELSE segs

\* the module name that corresponds to output_file
ModuleNameOf(path) ==
    strip_dots(dirname(SubSeq(path, LastApiDir(path) + 1, Len(path))))

RECURSIVE normpath(_)
\* os.path.normpath, on paths without "..": "." components are dropped
normpath(path) ==
    IF path = <<>> THEN <<>>
    ELSE IF Head(path) = "." THEN normpath(Tail(path))
    ELSE <<Head(path)>> \o normpath(Tail(path))

\* os.makedirs(d): d and the ancestors of d exist afterwards
makedirs(ds, d) ==
    ds \cup {Slashed(SubSeq(d, 1, i)) : i \in 1..Len(d)}

\* open(file_path, 'w').close() in place of mode 'a': the content is lost
touchTruncating(fsys, file) == (file :> "") @@ fsys

\* open(file_path, 'a').close(): the file exists afterwards, its content kept
touch(fsys, file) ==
    IF file \in DOMAIN fsys THEN fsys ELSE fsys @@ (file :> "")

\* what is written without the header
FileContentNoHeader(exports) == Join(exports, "\n")

\* _GENERATED_FILE_HEADER + '\n'.join(exports)
FileContent(exports) == GENERATED_FILE_HEADER \o Join(exports, "\n")

\* '"api/%s/__init__.py"' % module.replace('.', '/')
MissingPath(module) == "\"api/" \o Slashed(module) \o "/__init__.py\""

\* the namespaces of the model, their MissingPath strings ascending in
\* Python's string order: after "api/", "/" < "_" < "a" < "b" < "z"
NamespaceOrder ==
    << <<>>, <<"a">>, <<"a", "b">>, <<"b">>, <<"z">> >>

\* sorted(missing_output_files)
Sorted(paths) ==
    LET all == [i \in 1..Len(NamespaceOrder) |-> MissingPath(NamespaceOrder[i])]
        Listed(x) == InList(x, paths)
    IN  SelectSeq(all, Listed)

\* the end of create_api_files reporting only the first missing output
FinishOutcomeFirstOnly(missing) ==
    IF missing # <<>>
    THEN [pc |-> "ValueError_missing",
          err |-> "Missing outputs for python_api_gen genrule:\n"
                  \o Head(missing) \o "."
                  \o "Make sure all required outputs are in the "
                  \o "tensorflow/tools/api/generator/BUILD file."]
    ELSE [pc |-> "done", err |-> ""]

\* the end of create_api_files: `if missing_output_files: raise ValueError`
FinishOutcome(missing) ==
    IF missing # <<>>
    THEN [pc |-> "ValueError_missing",
          err |-> "Missing outputs for python_api_gen genrule:\n"
                  \o Join(Sorted(missing), ",\n") \o "."
                  \o "Make sure all required outputs are in the "
                  \o "tensorflow/tools/api/generator/BUILD file."]
    ELSE [pc |-> "done", err |-> ""]

\* the variables of get_api_imports
importVars == <<sys_modules, module_imports, seen_api_names, visited_symbols,
                mi, ki, pending, imported_modules, log, last>>

\* one iteration of `for output_file in output_files`
ParseOutputFile ==
    /\ pc = "parse"
    /\ pi <= Len(output_files)
    /\ LET output_file == output_files[pi]
       IN  IF ~HasApiDir(output_file)
           THEN /\ pc' = "ValueError_path"
                /\ err' = "Output files must be in api/ directory, found "
                          \o Slashed(output_file) \o "."
                /\ UNCHANGED <<module_name_to_file_path, pi>>
           ELSE /\ module_name_to_file_path' =
                       (ModuleNameOf(output_file) :> normpath(output_file))
                       @@ module_name_to_file_path
                /\ pi' = pi + 1
                /\ UNCHANGED <<pc, err>>
    /\ UNCHANGED <<output_files, fs0, dirs0, create_todo, write_todo,
                   missing_output_files, fs, dirs>>
    /\ UNCHANGED importVars

\* every output file is parsed: the creation loop starts
StartCreate ==
    /\ pc = "parse"
    /\ pi > Len(output_files)
    /\ pc' = "create"
    /\ create_todo' = DOMAIN module_name_to_file_path
    /\ UNCHANGED <<output_files, fs0, dirs0, module_name_to_file_path, pi,
                   write_todo, missing_output_files, fs, dirs, err>>
    /\ UNCHANGED importVars

\* one iteration of `for module, file_path in module_name_to_file_path.items()`
CreateFile ==
    /\ pc = "create"
    /\ \E module \in create_todo :
        LET file_path == module_name_to_file_path[module]
        IN  /\ dirs' = IF Slashed(dirname(file_path)) \notin dirs
                       THEN makedirs(dirs, dirname(file_path))
                       ELSE dirs
            /\ fs' = touch(fs, Slashed(file_path))
            /\ create_todo' = create_todo \ {module}
    /\ UNCHANGED <<output_files, fs0, dirs0, pc, module_name_to_file_path, pi,
                   write_todo, missing_output_files, err>>
    /\ UNCHANGED importVars

\* module_imports = get_api_imports() is entered
StartScan ==
    /\ pc = "create"
    /\ create_todo = {}
    /\ pc' = "scan"
    /\ UNCHANGED <<output_files, fs0, dirs0, module_name_to_file_path, pi,
                   create_todo, write_todo, missing_output_files, fs, dirs,
                   err>>
    /\ UNCHANGED importVars

\* one iteration of `for module, exports in module_imports.items()`
WriteModule ==
    /\ pc = "write"
    /\ \E module \in write_todo :
        /\ write_todo' = write_todo \ {module}
        /\ IF module \notin DOMAIN module_name_to_file_path
           THEN /\ missing_output_files' =
                       Append(missing_output_files, MissingPath(module))
                /\ UNCHANGED fs
           ELSE /\ fs' = (Slashed(module_name_to_file_path[module]) :>
                              FileContent(module_imports[module])) @@ fs
                /\ UNCHANGED missing_output_files
    /\ UNCHANGED <<output_files, fs0, dirs0, pc, module_name_to_file_path, pi,
                   create_todo, dirs, err>>
    /\ UNCHANGED importVars

\* the loop is over: raise ValueError for the missing outputs, or return
Finish ==
    /\ pc = "write"
    /\ write_todo = {}
    /\ LET r == FinishOutcome(missing_output_files)
       IN  /\ pc' = r.pc
           /\ err' = r.err
    /\ UNCHANGED <<output_files, fs0, dirs0, module_name_to_file_path, pi,
                   create_todo, write_todo, missing_output_files, fs, dirs>>
    /\ UNCHANGED importVars

FileRoot == <<".", "gen", "api", "__init__.py">>

FileA == <<"gen", "api", "a", "__init__.py">>

FileAAlt == <<"alt", "api", "a", "__init__.py">>

FileZ == <<"gen", "api", "z", "__init__.py">>

FileOutside == <<"api", "a", "__init__.py">>

PathPool == {FileRoot, FileA, FileAAlt, FileZ, FileOutside}

\* the output_files argument: up to MaxOutputs distinct paths of the pool
OutputLists ==
    UNION {{l \in [1..n -> PathPool] :
               \A i \in 1..n, j \in 1..n : l[i] = l[j] => i = j} :
           n \in 0..MaxOutputs}

\* files left by an earlier run
OldFiles == ("gen/api/__init__.py" :> "OLD") @@ ("gen/api/a/__init__.py" :> "OLD")

OldDirs == {"gen", "gen/api", "gen/api/a"}

\* the loaded modules of the runs of create_api_files
FileWorlds ==
    {<<ModRoot>>, <<ModConsts>>, <<ModAlias, ModConsts>>, <<ModNone, ModDeep>>}

Init ==
    /\ sys_modules \in FileWorlds
    /\ output_files \in OutputLists
    /\ \/ fs0 = NoFile /\ dirs0 = {}
       \/ fs0 = OldFiles /\ dirs0 = OldDirs
    /\ pc = "parse"
    /\ module_imports = <<>>
    /\ seen_api_names = {}
    /\ visited_symbols = {}
    /\ mi = 1
    /\ ki = 1
    /\ pending = <<>>
    /\ imported_modules = {}
    /\ module_name_to_file_path = <<>>
    /\ pi = 1
    /\ create_todo = {}
    /\ write_todo = {}
    /\ missing_output_files = <<>>
    /\ fs = fs0
    /\ dirs = dirs0
    /\ err = ""
    /\ log = <<>>
    /\ last = NoCall

Next ==
    \/ ParseOutputFile
    \/ StartCreate
    \/ CreateFile
    \/ StartScan
    \/ GetApiImports
    \/ WriteModule
    \/ Finish

Spec == Init /\ [][Next]_vars

-----------------------------------------------------------------------------
(* Properties of the builder (SpecBuilder). *)

\* the list of a namespace, empty when the namespace is no key
ListOf(imports, key) == IF key \in DOMAIN imports THEN imports[key] ELSE <<>>

\* the rendered statement and the Full Export Name of the last direct call
LastStatement == format_import(last.src, last.name, last.alias)

LastFullName ==
    IF last.dest = <<>> THEN last.alias
    ELSE Dotted(last.dest) \o "." \o last.alias

\* C1: a call of add_import whose rendered statement is not in the
\* destination namespace's list while its Full Export Name is already
\* registered raises SymbolExposedTwiceError, and no namespace list changes:
\* nothing is appended and the earlier statement is not replaced.
C1_ConflictRaises ==
    (/\ last.made
     /\ ~InList(LastStatement, ListOf(last.imports_before, last.dest))
     /\ LastFullName \in last.seen_before)
    => /\ last.outcome = "raised"
       /\ err = "Trying to export multiple symbols with same name: "
                \o LastFullName \o "."
       /\ DOMAIN last.imports_before \subseteq DOMAIN module_imports
       /\ \A k \in DOMAIN module_imports :
              module_imports[k] = ListOf(last.imports_before, k)
       /\ seen_api_names = last.seen_before

\* C1 witness: add_import('', 'mod_a', 'Foo', 'X') has been followed by
\* add_import('', 'mod_b', 'Bar', 'X'), which raised.
C1_Witness ==
    /\ last.made
    /\ last.outcome = "raised"
    /\ last.dest = <<>> /\ last.src = "mod_b"
    /\ last.name = "Bar" /\ last.alias = "X"
    /\ ListOf(module_imports, <<>>) = <<"from mod_a import Foo as X">>

\* C3: no namespace list holds the same rendered statement twice, and a call
\* whose rendered statement is already in the destination namespace's list
\* returns without raising and leaves the lists and the registered names as
\* they were.
C3_IdempotentAppend ==
    /\ \A k \in DOMAIN module_imports :
           \A i \in 1..Len(module_imports[k]), j \in 1..Len(module_imports[k]) :
               module_imports[k][i] = module_imports[k][j] => i = j
    /\ (last.made /\ InList(LastStatement,
                            ListOf(last.imports_before, last.dest)))
       => /\ last.outcome = "duplicate"
          /\ err = ""
          /\ module_imports = last.imports_before
          /\ seen_api_names = last.seen_before

\* C3 witness: a statement added by an earlier call has been added again.
C3_Witness ==
    /\ last.made
    /\ last.outcome = "duplicate"
    /\ Len(log) >= 2
    /\ InList(LastStatement, module_imports[last.dest])

-----------------------------------------------------------------------------
(* Properties of get_api_imports (SpecImports). *)

\* get_api_imports has returned its map
Returned == pc = "write"

\* the log entries of the calls the scan made for exports
IsExport(e) == e.origin.kind \in {"symbol", "const"}

Accepted(e) == e.outcome # "raised"

NameOfEntry(e) ==
    IF e.dest = <<>> THEN e.alias ELSE Dotted(e.dest) \o "." \o e.alias

\* The underlying object of an export.  A symbol export is the unwrapped
\* object that carries _tf_api_names.  A constant export (exports, value)
\* makes the statement `from <module> import <value>`: it exports the
\* attribute <value> of its module, the object under it when the module has
\* such a member, the module's own constant otherwise.
IdentityOf(origin) ==
    IF origin.kind = "symbol" THEN origin.obj
    ELSE LET module == sys_modules[origin.mod]
             bound == {k \in 1..Len(module.members) :
                          module.members[k].name = origin.obj}
         IN  IF bound # {}
             THEN Unwrap(module.members[CHOOSE k \in bound : TRUE].obj)
             ELSE Dotted(module.name) \o ":" \o origin.obj

C4_Closure ==
    Returned =>
        \A N \in DOMAIN module_imports :
            \A i \in 1..Len(N) :
                LET parent == SubSeq(N, 1, i - 1)
                IN  InList("from " \o Dotted(OUTPUT_MODULE \o parent)
                           \o " import " \o N[i],
                           ListOf(module_imports, parent))

\* C4 witness: the map returned has a namespace two levels deep whose parent
\* received no export of its own, so the closure pass alone made it a key.
C4_Witness ==
    /\ Returned
    /\ \E N \in DOMAIN module_imports :
           /\ Len(N) >= 2
           /\ AllButLast(N) \in DOMAIN module_imports
           /\ ~\E i \in 1..Len(log) :
                   IsExport(log[i]) /\ log[i].dest = AllButLast(N)

\* the members through which the scan meets object u: members of scanned
\* modules, other than _tf_api_constants, whose unwrapped attribute is u
Encounters(u) ==
    UNION {{<<m, k>> : k \in {k \in 1..Len(sys_modules[m].members) :
                /\ ~Skipped(sys_modules[m])
                /\ sys_modules[m].members[k].name # API_CONSTANTS_ATTR
                /\ Unwrap(sys_modules[m].members[k].obj) = u}} :
           m \in 1..Len(sys_modules)}

NotAfter(e1, e2) == e1[1] < e2[1] \/ (e1[1] = e2[1] /\ e1[2] <= e2[2])

FirstEncounter(u) ==
    CHOOSE e \in Encounters(u) : \A e2 \in Encounters(u) : NotAfter(e, e2)

\* the add_import calls made for symbol u, in order
EmittedFor(u) ==
    LET ForU(e) == e.origin.kind = "symbol" /\ e.origin.obj = u
    IN  SelectSeq(log, ForU)

\* the scan has finished the loop body of member e without raising
Past(e) ==
    \/ pc \in {"closure", "write"}
    \/ /\ pc = "scan"
       /\ pending = <<>>
       /\ (mi > e[1] \/ (mi = e[1] /\ ki > e[2]))

\* C5: the calls made for an exported symbol are made at its first
\* encounter only: they carry the module name and member name of the first
\* encounter, there is one per declared export path, in order (destination
\* namespace = the path without its last segment, alias = the last segment),
\* all of them once the first encounter is behind, and no later encounter of
\* the same object adds a call.
C5_FirstEncounterOnly ==
    \A u \in {o \in Objects : HasApiNames(o)} :
        LET E == EmittedFor(u)
        IN  IF Encounters(u) = {} THEN E = <<>>
            ELSE LET f == FirstEncounter(u)
                     module == sys_modules[f[1]]
                     member == module.members[f[2]]
                 IN  /\ Len(E) <= Len(ApiNames(u))
                     /\ \A i \in 1..Len(E) :
                            /\ E[i].origin.mod = f[1]
                            /\ E[i].origin.mem = f[2]
                            /\ E[i].src = Dotted(module.name)
                            /\ E[i].name = member.name
                            /\ E[i].dest = AllButLast(ApiNames(u)[i])
                            /\ E[i].alias = Last(ApiNames(u)[i])
                     /\ Past(f) => Len(E) = Len(ApiNames(u))

\* C5 witness: the symbol exported as a.Foo and b.Foo has been met through
\* several members, the map is returned without error, and namespaces a and
\* b each hold the statement of the first encounter.
C5_Witness ==
    /\ Returned
    /\ Cardinality(Encounters("U1")) >= 2
    /\ LET E == EmittedFor("U1")
       IN  /\ Len(E) = 2
           /\ E[1].outcome = "added" /\ E[2].outcome = "added"
           /\ E[1].dest = <<"a">> /\ E[2].dest = <<"b">>
           /\ E[1].src = E[2].src /\ E[1].name = E[2].name
           /\ InList(format_import(E[1].src, E[1].name, "Foo"),
                     module_imports[<<"a">>])
           /\ InList(format_import(E[1].src, E[1].name, "Foo"),
                     module_imports[<<"b">>])

\* C6: if the scan registered an export whose Full Export Name is a
\* namespace path the closure pass binds, get_api_imports raises
\* SymbolExposedTwiceError and returns no map: no returned map has an export
\* named like one of its namespaces or their ancestors.
C6_ClosureConflictRaises ==
    Returned =>
        \A i \in 1..Len(log) :
            (IsExport(log[i]) /\ Accepted(log[i])) =>
                \A N \in DOMAIN module_imports :
                    \A j \in 1..Len(N) :
                        NameOfEntry(log[i]) # Dotted(SubSeq(N, 1, j))

-----------------------------------------------------------------------------
(* Properties of create_api_files (Spec). *)

\* a declared path without the marker "/api/"
NoMarker(path) == \A i \in 2..(Len(path) - 1) : path[i] # "api"

\* the file a declared path names
FileOf(path) == Slashed(normpath(path))

\* the files create_api_files holds a namespace for
RegisteredFiles ==
    {Slashed(module_name_to_file_path[ns]) :
        ns \in DOMAIN module_name_to_file_path}

\* what the header and the statements of a namespace make
Generated(ns) ==
    "\"\"\"Imports for Python API.\n\nThis file is MACHINE GENERATED! Do not edit.\nGenerated by: tensorflow/tools/api/generator/create_python_api.py script.\n\"\"\"\n"
    \o Join(ListOf(module_imports, ns), "\n")

\* a file as the run found it: its old content, or absent
AsFound(f) ==
    /\ f \in DOMAIN fs <=> f \in DOMAIN fs0
    /\ f \in DOMAIN fs => fs[f] = fs0[f]

\* a file the run has at most created: its old content, or empty if it was
\* missing
AtMostCreated(f) ==
    /\ f \in DOMAIN fs0 => (f \in DOMAIN fs /\ fs[f] = fs0[f])
    /\ (f \in DOMAIN fs /\ f \notin DOMAIN fs0) => fs[f] = ""

MissingNamespaces == DOMAIN module_imports \ DOMAIN module_name_to_file_path

\* their expected paths, ascending
MissingListed ==
    LET IsMissing(ns) == ns \in MissingNamespaces
        sorted == SelectSeq(NamespaceOrder, IsMissing)
    IN  [i \in 1..Len(sorted) |->
            "\"api/" \o Join(sorted[i], "/") \o "/__init__.py\""]

\* C8: when namespaces of the returned map have no declared path, the run
\* ends with one ValueError, raised after the loop: every namespace with a
\* declared path has been written, and the message lists the expected path
\* api/<namespace with slashes>/__init__.py of every missing namespace.  The
\* run completes normally only when no namespace is missing.
C8_MissingAggregated ==
    /\ pc = "ValueError_missing" =>
           /\ MissingNamespaces # {}
           /\ write_todo = {}
           /\ \A ns \in DOMAIN module_imports :
                  ns \in DOMAIN module_name_to_file_path =>
                      fs[Slashed(module_name_to_file_path[ns])] = Generated(ns)
           /\ err = "Missing outputs for python_api_gen genrule:\n"
                    \o Join(MissingListed, ",\n") \o "."
                    \o "Make sure all required outputs are in the "
                    \o "tensorflow/tools/api/generator/BUILD file."
    /\ pc = "done" => MissingNamespaces = {}

\* C8 witness: the run has ended with the ValueError, two or more namespaces
\* (the root among them) are missing, and a declared namespace was written.
C8_Witness ==
    /\ pc = "ValueError_missing"
    /\ Cardinality(MissingNamespaces) >= 2
    /\ <<>> \in MissingNamespaces
    /\ \E ns \in DOMAIN module_imports :
           ns \in DOMAIN module_name_to_file_path

\* the first declared path without the marker
FirstOutside ==
    CHOOSE i \in 1..Len(output_files) :
        /\ NoMarker(output_files[i])
        /\ \A j \in 1..(i - 1) : ~NoMarker(output_files[j])

\* C9: if a declared path does not contain "/api/", wherever it stands in
\* the list, the run never gets past the parsing loop: it raises a
\* ValueError naming the (first such) path, with no file or directory
\* created or written and the scan not started.
C9_PathContract ==
    (\E i \in 1..Len(output_files) : NoMarker(output_files[i])) =>
        /\ pc \in {"parse", "ValueError_path"}
        /\ pc = "parse" => pi <= FirstOutside
        /\ pc = "ValueError_path" =>
               /\ pi = FirstOutside
               /\ err = "Output files must be in api/ directory, found "
                        \o Slashed(output_files[FirstOutside]) \o "."
        /\ fs = fs0
        /\ dirs = dirs0
        /\ log = <<>>
        /\ visited_symbols = {}
        /\ mi = 1 /\ ki = 1
        /\ DOMAIN module_imports = {}

\* C9 witness: the ValueError has been raised for a path that is not the
\* first of the list, files of the other paths being absent from the disk.
C9_Witness ==
    /\ pc = "ValueError_path"
    /\ pi >= 2
    /\ fs0 = NoFile

\* C10: until the import map is complete (scan and closure pass done) no
\* file is written: every file has its old content, or is empty if the run
\* created it, and only declared files are created.  So it is when the run
\* aborts with SymbolExposedTwiceError, every declared namespace's file
\* existing by then.
C10_NoWriteBeforeMap ==
    /\ pc \in {"parse", "create", "scan", "closure", "ValueError_path",
               "SymbolExposedTwiceError"} =>
           /\ \A f \in DOMAIN fs0 \cup DOMAIN fs : AtMostCreated(f)
           /\ DOMAIN fs \subseteq DOMAIN fs0 \cup RegisteredFiles
    /\ pc = "SymbolExposedTwiceError" =>
           /\ RegisteredFiles \subseteq DOMAIN fs
           /\ write_todo = {}
           /\ missing_output_files = <<>>

\* C10 witness: the run has aborted with SymbolExposedTwiceError, leaving a
\* declared file that existed with its old content and a declared file that
\* was missing created empty.
C10_Witness ==
    /\ pc = "SymbolExposedTwiceError"
    /\ \E f \in RegisteredFiles : f \in DOMAIN fs0 /\ fs[f] = "OLD"
    /\ \E f \in RegisteredFiles : f \notin DOMAIN fs0 /\ fs[f] = ""

=============================================================================
